---- MODULE Spec2Model ----
(***************************************************************************)
(* A model of TikTokLikesViewsTrends.py: the per-entity pipeline           *)
(* fetch_posts_last_year -> build_daily_stats -> calculate_slopes and the  *)
(* cohort loop of main with its heat_score_plus normalisation.             *)
(*                                                                         *)
(* Numbers.  Raw counts are integers.  Every derived column (ratios,       *)
(* rolling averages, slopes, scores) is an exact rational or a missing     *)
(* value: pd.NA, NaN and None are one value NA here, and a division of a   *)
(* non-zero number by zero is a signed infinity as in float arithmetic.    *)
(* Float rounding is not modelled.  Missing values behave as the pandas    *)
(* API documents them: arithmetic propagates them, Series.mean() and       *)
(* Series.sum() skip them, rolling(window).mean() needs `window` present   *)
(* observations, and linregress over a missing value yields a missing      *)
(* slope.                                                                  *)
(***************************************************************************)
EXTENDS Integers, Sequences, FiniteSets, TLC

VARIABLES pc, users, idx, response, posts, df_stats, results,
          all_users_df, slope_summaries, slope_df, uploads

vars == <<pc, users, idx, response, posts, df_stats, results,
          all_users_df, slope_summaries, slope_df, uploads>>

(***************************************************************************)
(* Program constants                                                       *)
(***************************************************************************)
DaySeconds == 86400
RetentionWeeks == 52
Window == 28
SlopeDays3mo == 90
SlopeDays6mo == 180
SlopeDays12mo == 365
RecentDays == 14
PrevDays == 28
PlusScale == 100
\* date.toordinal() of 1970-01-01
EpochOrdinal == 719163
\* datetime.utcnow() of the run: 2025-04-03 06:00:00 UTC
Now == 1743660000

(***************************************************************************)
(* Exact arithmetic with missing values                                    *)
(***************************************************************************)
Abs(x) == IF x < 0 THEN -x ELSE x

RECURSIVE GCD(_, _)
GCD(a, b) == IF b = 0 THEN a ELSE GCD(b, a % b)

NA == [k |-> "na", n |-> 0, d |-> 1]

Inf(s) == [k |-> "inf", n |-> s, d |-> 0]

Sign(x) == IF x < 0 THEN -1 ELSE IF x > 0 THEN 1 ELSE 0

\* a / b in lowest terms, b # 0
Frac(a, b) ==
    LET g == GCD(Abs(a), Abs(b))
        s == IF b < 0 THEN -1 ELSE 1
    IN  [k |-> "num", n |-> (s * a) \div g, d |-> (s * b) \div g]

Num(i) == Frac(i, 1)

IsNum(x) == x.k = "num"

IsNA(x) == x.k = "na"

Add(x, y) ==
    IF IsNum(x) /\ IsNum(y)
    THEN LET l == (x.d \div GCD(x.d, y.d)) * y.d
         IN  Frac(x.n * (l \div x.d) + y.n * (l \div y.d), l)
    ELSE IF IsNA(x) \/ IsNA(y) THEN NA
    ELSE IF IsNum(x) THEN y
    ELSE IF IsNum(y) THEN x
    ELSE IF x.n = y.n THEN x ELSE NA

Mul(x, y) ==
    IF IsNum(x) /\ IsNum(y)
    THEN LET g == GCD(Abs(x.n), y.d)
             h == GCD(Abs(y.n), x.d)
         IN  Frac((x.n \div g) * (y.n \div h), (x.d \div h) * (y.d \div g))
    ELSE IF IsNA(x) \/ IsNA(y) THEN NA
    ELSE IF Sign(x.n) * Sign(y.n) = 0 THEN NA
    ELSE Inf(Sign(x.n) * Sign(y.n))

\* float division: x / 0 is a signed infinity, 0 / 0 is NaN
Div(x, y) ==
    IF IsNA(x) \/ IsNA(y) THEN NA
    ELSE IF IsNum(x) /\ IsNum(y)
         THEN IF y.n # 0 THEN Frac(x.n * y.d, x.d * y.n)
              ELSE IF x.n = 0 THEN NA ELSE Inf(Sign(x.n))
    ELSE IF IsNum(y)
         THEN IF y.n = 0 THEN x ELSE Inf(Sign(x.n) * Sign(y.n))
    ELSE IF IsNum(x) THEN Num(0)
    ELSE NA

Neg(x) == IF IsNA(x) THEN NA ELSE [x EXCEPT !.n = -x.n]

Sub(x, y) == Add(x, Neg(y))

\* sums split in halves, so that the evaluation stays shallow on long columns
RECURSIVE SumIntsIn(_, _, _)
SumIntsIn(s, lo, hi) ==
    IF lo > hi THEN 0
    ELSE IF lo = hi THEN s[lo]
    ELSE SumIntsIn(s, lo, (lo + hi) \div 2) + SumIntsIn(s, ((lo + hi) \div 2) + 1, hi)

SumInts(s) == SumIntsIn(s, 1, Len(s))

RECURSIVE SumNumsIn(_, _, _)
SumNumsIn(s, lo, hi) ==
    IF lo > hi THEN Num(0)
    ELSE IF lo = hi THEN s[lo]
    ELSE Add(SumNumsIn(s, lo, (lo + hi) \div 2), SumNumsIn(s, ((lo + hi) \div 2) + 1, hi))

SumNums(s) == SumNumsIn(s, 1, Len(s))

Defined(s) == SelectSeq(s, IsNum)

MeanOf(v) == IF v = <<>> THEN NA ELSE Div(SumNums(v), Num(Len(v)))

\* Series.mean(): missing values are skipped, the mean of none is missing
MeanSkipNA(s) == MeanOf(Defined(s))

RECURSIVE MaxIn(_, _, _)
MaxIn(s, lo, hi) ==
    IF lo = hi THEN s[lo]
    ELSE LET a == MaxIn(s, lo, (lo + hi) \div 2)
             b == MaxIn(s, ((lo + hi) \div 2) + 1, hi)
         IN  IF a >= b THEN a ELSE b

\* Series.max() of a non-empty column
Max(s) == MaxIn(s, 1, Len(s))

\* the same sequence, held as a tuple of values
Rows(f) == SubSeq(f, 1, Len(f))

SetMin(S) == CHOOSE x \in S : \A y \in S : x <= y

SetMax(S) == CHOOSE x \in S : \A y \in S : x >= y

(***************************************************************************)
(* fetch_posts_last_year                                                   *)
(***************************************************************************)
\* dict.get(key, default)
Get(dict, key, default) == IF key \in DOMAIN dict THEN dict[key] ELSE default

NoStats == [x \in {} |-> 0]

one_year_ago == Now - RetentionWeeks * 7 * DaySeconds

\* datetime.utcfromtimestamp(post.get("createTime")) raises on None
Raises(post) == "createTime" \notin DOMAIN post

InRetention(post) == post.createTime >= one_year_ago

PostEvent(post) ==
    [createTime |-> post.createTime,
     views      |-> Get(Get(post, "stats", NoStats), "playCount", 0),
     likes      |-> Get(Get(post, "stats", NoStats), "diggCount", 0),
     comments   |-> Get(Get(post, "stats", NoStats), "commentCount", 0),
     shares     |-> Get(Get(post, "stats", NoStats), "shareCount", 0)]

PostEvents(kept) == Rows([i \in DOMAIN kept |-> PostEvent(kept[i])])

\* the list comprehension of lines 58-68
Comprehension(items) == PostEvents(SelectSeq(items, InRetention))

\* resp.ok = FALSE: api.public.posts raised
fetch_posts_last_year(resp) ==
    IF ~resp.ok THEN <<>>
    ELSE IF \E i \in DOMAIN resp.itemList : Raises(resp.itemList[i]) THEN <<>>
    ELSE Comprehension(resp.itemList)

(***************************************************************************)
(* build_daily_stats                                                       *)
(***************************************************************************)
\* createTime.dt.date, as days since 1970-01-01
DateOf(ts) == ts \div DaySeconds

OnDate(ps, d) == SelectSeq(ps, LAMBDA p : DateOf(p.createTime) = d)

Column(rows, col) == Rows([i \in DOMAIN rows |-> rows[i][col]])

\* GroupRow counting the days instead of the posts
GroupRowCountingDays(ps, d) ==
    [date |-> d,
     views    |-> SumInts(Column(OnDate(ps, d), "views")),
     likes    |-> SumInts(Column(OnDate(ps, d), "likes")),
     comments |-> SumInts(Column(OnDate(ps, d), "comments")),
     shares   |-> SumInts(Column(OnDate(ps, d), "shares")),
     videos   |-> 1]

\* groupby('date').agg(sum) and value_counts().sort_index() for one date
GroupRow(ps, d) ==
    LET g == OnDate(ps, d)
    IN  [date |-> d,
         views    |-> SumInts(Column(g, "views")),
         likes    |-> SumInts(Column(g, "likes")),
         comments |-> SumInts(Column(g, "comments")),
         shares   |-> SumInts(Column(g, "shares")),
         videos   |-> Len(g)]

FillRow(d, fill_value) ==
    [date |-> d, views |-> fill_value, likes |-> fill_value,
     comments |-> fill_value, shares |-> fill_value, videos |-> fill_value]

\* Reindex without the reindexing: only the days that have a group
ReindexGroupsOnly(ps, dates, lo, hi, fill_value) ==
    SelectSeq(Rows([i \in 1..(hi - lo + 1) |->
                      IF (lo + i - 1) \in dates THEN GroupRow(ps, lo + i - 1)
                      ELSE FillRow(lo + i - 1, fill_value)]),
              LAMBDA r : r.date \in dates)

\* reindex(date_range(lo, hi, freq='D'), fill_value): one row per day of lo..hi
Reindex(ps, dates, lo, hi, fill_value) ==
    Rows([i \in 1..(hi - lo + 1) |->
            IF (lo + i - 1) \in dates THEN GroupRow(ps, lo + i - 1)
            ELSE FillRow(lo + i - 1, fill_value)])

Dates(ps) == {DateOf(ps[i].createTime) : i \in DOMAIN ps}

\* set_index('date').asfreq('D', fill_value=0)
AsFreq(ps) == Reindex(ps, Dates(ps), SetMin(Dates(ps)), SetMax(Dates(ps)), 0)

\* PerPost with a zero denominator giving 0
PerPostZero(a, b) == IF b = 0 THEN Num(0) ELSE Frac(a, b)

\* a / b.replace(0, pd.NA)
PerPost(a, b) == IF b = 0 THEN NA ELSE Frac(a, b)

Ratios(r) ==
    [likes_per_post    |-> PerPost(r.likes, r.videos),
     comments_per_post |-> PerPost(r.comments, r.videos),
     shares_per_post   |-> PerPost(r.shares, r.videos),
     views_per_post    |-> PerPost(r.views, r.videos),
     engagement_rate   |-> PerPost(r.likes + r.comments + r.shares, r.views)]

RawCols == {"views", "likes", "comments", "shares", "videos"}

RatioCols == {"likes_per_post", "comments_per_post", "shares_per_post",
              "views_per_post", "engagement_rate"}

\* the value of a numeric column as a number
Val(row, col) == IF col \in RawCols THEN Num(row[col]) ELSE row[col]

\* RollingMean with min_periods=1 over the present values of the window
RollingMeanOfPresent(series, i) ==
    IF i < Window THEN NA
    ELSE MeanSkipNA(SubSeq(series, i - Window + 1, i))

\* series.rolling(window=28).mean(): the mean of the last 28 values, missing
\* while fewer than 28 present values are in the window (min_periods = window)
RollingMean(series, i) ==
    IF i < Window THEN NA
    ELSE IF \E j \in (i - Window + 1)..i : ~IsNum(series[j]) THEN NA
    ELSE Div(SumNumsIn(series, i - Window + 1, i), Num(Window))

RollingMeans(series) == Rows([i \in DOMAIN series |-> RollingMean(series, i)])

Values(rows, col) == Rows([j \in DOMAIN rows |-> Val(rows[j], col)])

Rolling(rows, col) == RollingMeans(Values(rows, col))

\* the five derived columns of lines 91-95
WithRatios(r) ==
    [date |-> r.date, views |-> r.views, likes |-> r.likes,
     comments |-> r.comments, shares |-> r.shares, videos |-> r.videos,
     likes_per_post    |-> Ratios(r).likes_per_post,
     comments_per_post |-> Ratios(r).comments_per_post,
     shares_per_post   |-> Ratios(r).shares_per_post,
     views_per_post    |-> Ratios(r).views_per_post,
     engagement_rate   |-> Ratios(r).engagement_rate]

\* the ten _28day_avg columns of lines 97-100
Averages(rows) ==
    [views |-> Rolling(rows, "views"), likes |-> Rolling(rows, "likes"),
     comments |-> Rolling(rows, "comments"), shares |-> Rolling(rows, "shares"),
     videos |-> Rolling(rows, "videos"),
     likes_per_post |-> Rolling(rows, "likes_per_post"),
     comments_per_post |-> Rolling(rows, "comments_per_post"),
     shares_per_post |-> Rolling(rows, "shares_per_post"),
     views_per_post |-> Rolling(rows, "views_per_post"),
     engagement_rate |-> Rolling(rows, "engagement_rate")]

DailyRecord(r, avg, i) ==
    [date |-> r.date, views |-> r.views, likes |-> r.likes,
     comments |-> r.comments, shares |-> r.shares, videos |-> r.videos,
     likes_per_post |-> r.likes_per_post,
     comments_per_post |-> r.comments_per_post,
     shares_per_post |-> r.shares_per_post,
     views_per_post |-> r.views_per_post,
     engagement_rate |-> r.engagement_rate,
     views_28day_avg |-> avg.views[i],
     likes_28day_avg |-> avg.likes[i],
     comments_28day_avg |-> avg.comments[i],
     shares_28day_avg |-> avg.shares[i],
     videos_28day_avg |-> avg.videos[i],
     likes_per_post_28day_avg |-> avg.likes_per_post[i],
     comments_per_post_28day_avg |-> avg.comments_per_post[i],
     shares_per_post_28day_avg |-> avg.shares_per_post[i],
     views_per_post_28day_avg |-> avg.views_per_post[i],
     engagement_rate_28day_avg |-> avg.engagement_rate[i]]

WithAverages(rows, avg) == Rows([i \in DOMAIN rows |-> DailyRecord(rows[i], avg, i)])

AllRatios(base) == Rows([j \in DOMAIN base |-> WithRatios(base[j])])

AllColumns(rows) == WithAverages(rows, Averages(rows))

\* the empty DataFrame is the empty sequence of rows
build_daily_stats(ps) ==
    IF ps = <<>> THEN <<>>
    ELSE AllColumns(AllRatios(AsFreq(ps)))

(***************************************************************************)
(* calculate_slopes                                                        *)
(***************************************************************************)
\* pd.to_datetime(date).map(datetime.toordinal)
Ordinal(d) == d + EpochOrdinal

\* df[df['date'] >= cutoff]
Since(df, cutoff) == SelectSeq(df, LAMBDA r : r.date >= cutoff)

Centred(x, xmean) == Rows([i \in DOMAIN x |-> Sub(Num(x[i]), xmean)])

Products(a, b) == Rows([i \in DOMAIN a |-> Mul(a[i], b[i])])

\* CovOverVar of linregress(y, x): the arguments swapped
CovOverVarOfY(dx, dy) == Div(SumNums(Products(dx, dy)), SumNums(Products(dy, dy)))

\* cov(x, y) / var(x) about the means
CovOverVar(dx, dy) == Div(SumNums(Products(dx, dy)), SumNums(Products(dx, dx)))

CentredNums(y, ymean) == Rows([i \in DOMAIN y |-> Sub(y[i], ymean)])

\* scipy.stats.linregress(x, y).slope; x are distinct days, a missing y gives
\* a missing slope
LinregressSlope(x, y) ==
    IF \E i \in DOMAIN y : ~IsNum(y[i]) THEN NA
    ELSE CovOverVar(Centred(x, Frac(SumInts(x), Len(x))),
                    CentredNums(y, Div(SumNums(y), Num(Len(y)))))

SlopeMetrics == <<"views", "likes", "engagement_rate">>

SlopeWindows == <<[label |-> "slope_3mo", days |-> SlopeDays3mo],
                  [label |-> "slope_6mo", days |-> SlopeDays6mo],
                  [label |-> "slope_12mo", days |-> SlopeDays12mo]>>

Ordinals(subset) == Rows([i \in DOMAIN subset |-> Ordinal(subset[i].date)])

\* lines 114-119
SlopeOf(subset, metric) ==
    IF Len(subset) > 1 THEN LinregressSlope(Ordinals(subset), Values(subset, metric))
    ELSE NA

\* df['date'].max()
Today(df) == Max(Column(df, "date"))

\* the body of the loop over metric and window, lines 111-126
SlopeRow(df, username, metric, w) ==
    [username |-> username, metric |-> metric, slope_window |-> w.label,
     slope |-> SlopeOf(Since(df, Today(df) - w.days), metric)]

Between(df, from, before) == SelectSeq(df, LAMBDA r : r.date < before /\ r.date >= from)

Recent(df) == Since(df, Today(df) - RecentDays)

Prev(df) == Between(df, Today(df) - PrevDays, Today(df) - RecentDays)

Velocity(recent, prev) == SumInts(Column(recent, "views")) - SumInts(Column(prev, "views"))

MomentumScore(recent, prev) ==
    IF SumInts(Column(prev, "views")) > 0
    THEN Frac(SumInts(Column(recent, "views")), SumInts(Column(prev, "views")))
    ELSE NA

\* HeatScore without the fallback
HeatScoreNoFallback(velocity, mean) == Mul(Num(velocity), mean)

\* velocity * (mean if not pd.isna(mean) else 1)
HeatScore(velocity, mean) == Mul(Num(velocity), IF ~IsNA(mean) THEN mean ELSE Num(1))

\* MomentumRows without the test of prev
MomentumRowsUnlessNoRecent(recent, prev, username) ==
    IF recent # <<>>
    THEN << [username |-> username, metric |-> "velocity",
             slope_window |-> "14_day_delta", slope |-> Num(Velocity(recent, prev))],
            [username |-> username, metric |-> "momentum_score",
             slope_window |-> "2wk_ratio", slope |-> MomentumScore(recent, prev)],
            [username |-> username, metric |-> "heat_score",
             slope_window |-> "engagement_weighted",
             slope |-> HeatScore(Velocity(recent, prev),
                                 MeanSkipNA(Column(recent, "engagement_rate")))] >>
    ELSE <<>>

MomentumRows(recent, prev, username) ==
    IF recent # <<>> /\ prev # <<>>
    THEN << [username |-> username, metric |-> "velocity",
             slope_window |-> "14_day_delta", slope |-> Num(Velocity(recent, prev))],
            [username |-> username, metric |-> "momentum_score",
             slope_window |-> "2wk_ratio", slope |-> MomentumScore(recent, prev)],
            [username |-> username, metric |-> "heat_score",
             slope_window |-> "engagement_weighted",
             slope |-> HeatScore(Velocity(recent, prev),
                                 MeanSkipNA(Column(recent, "engagement_rate")))] >>
    ELSE <<>>

\* lines 128-154
Momentum(df, username) == MomentumRows(Recent(df), Prev(df), username)

calculate_slopes(df, username) ==
    Rows([k \in 1..9 |-> SlopeRow(df, username, SlopeMetrics[((k - 1) \div 3) + 1],
                                   SlopeWindows[((k - 1) % 3) + 1])])
    \o Momentum(df, username)

(***************************************************************************)
(* main                                                                    *)
(***************************************************************************)
HeatRows(rows) == SelectSeq(rows, LAMBDA r : r.metric = "heat_score")

PlusRows(rows, avg_heat) ==
    Rows([i \in DOMAIN rows |->
            [username |-> rows[i].username, metric |-> rows[i].metric,
             slope_window |-> rows[i].slope_window, slope |-> rows[i].slope,
             heat_score_plus |->
                IF rows[i].metric = "heat_score"
                THEN Mul(Div(rows[i].slope, avg_heat), Num(PlusScale))
                ELSE NA]])

\* WithHeatScorePlus with the mean of the whole slope column
WithHeatScorePlusOverAll(rows) ==
    IF HeatRows(rows) = <<>> THEN rows
    ELSE PlusRows(rows, MeanSkipNA(Column(rows, "slope")))

\* lines 183-191: the heat_score_plus column exists only when a heat_score row does
WithHeatScorePlus(rows) ==
    IF HeatRows(rows) = <<>> THEN rows
    ELSE PlusRows(rows, MeanSkipNA(Column(HeatRows(rows), "slope")))

\* df_stats['username'] = user['username']
Tagged(df, username) ==
    Rows([i \in DOMAIN df |-> [c \in DOMAIN df[i] \cup {"username"} |->
                                 IF c = "username" THEN username ELSE df[i][c]]])

NoResponse == [ok |-> FALSE, itemList |-> <<>>]

Init ==
    /\ pc = "start"
    /\ users = <<>>
    /\ idx = 1
    /\ response = NoResponse
    /\ posts = <<>>
    /\ df_stats = <<>>
    /\ results = <<>>
    /\ all_users_df = <<>>
    /\ slope_summaries = <<>>
    /\ slope_df = <<>>
    /\ uploads = <<>>

\* users = fetch_following_users(main_secUid); an API error gives the empty list
FetchFollowing(UserLists) ==
    /\ pc = "start"
    /\ users' \in UserLists
    /\ pc' = "loop"
    /\ UNCHANGED <<idx, response, posts, df_stats, results, all_users_df,
                   slope_summaries, slope_df, uploads>>

Slopes(df, username) == IF df # <<>> THEN calculate_slopes(df, username) ELSE <<>>

\* lines 172-177, with the locals of the iteration
Collect(ps, df, res, username) ==
    /\ posts' = ps
    /\ df_stats' = df
    /\ results' = res
    /\ all_users_df' = IF df # <<>> THEN all_users_df \o Tagged(df, username)
                       ELSE all_users_df
    /\ slope_summaries' = slope_summaries \o res

Aggregate(ps, df, username) == Collect(ps, df, Slopes(df, username), username)

\* one iteration of the loop over users, lines 167-177
ProcessUser(Responses) ==
    /\ pc = "loop"
    /\ idx <= Len(users)
    /\ \E resp \in Responses :
          /\ response' = resp
          /\ Aggregate(fetch_posts_last_year(resp),
                       build_daily_stats(fetch_posts_last_year(resp)),
                       users[idx].username)
    /\ idx' = idx + 1
    /\ UNCHANGED <<pc, users, slope_df, uploads>>

\* lines 179-180
UploadDaily ==
    /\ pc = "loop"
    /\ idx > Len(users)
    /\ uploads' = IF all_users_df # <<>>
                  THEN Append(uploads, [table |-> "likes_views_engagement",
                                        rows |-> Len(all_users_df)])
                  ELSE uploads
    /\ pc' = "trend"
    /\ UNCHANGED <<users, idx, response, posts, df_stats, results, all_users_df,
                   slope_summaries, slope_df>>

\* UploadTrend without the test of slope_summaries
UploadTrendAlways ==
    /\ pc = "trend"
    /\ slope_df' = WithHeatScorePlus(slope_summaries)
    /\ uploads' = Append(uploads, [table |-> "artist_growth_summary",
                                   rows |-> Len(slope_summaries)])
    /\ pc' = "done"
    /\ UNCHANGED <<users, idx, response, posts, df_stats, results, all_users_df,
                   slope_summaries>>

\* lines 182-195
UploadTrend ==
    /\ pc = "trend"
    /\ IF slope_summaries # <<>>
       THEN /\ slope_df' = WithHeatScorePlus(slope_summaries)
            /\ uploads' = Append(uploads, [table |-> "artist_growth_summary",
                                           rows |-> Len(slope_summaries)])
       ELSE UNCHANGED <<slope_df, uploads>>
    /\ pc' = "done"
    /\ UNCHANGED <<users, idx, response, posts, df_stats, results, all_users_df,
                   slope_summaries>>

(***************************************************************************)
(* Inputs: what the API returns                                            *)
(***************************************************************************)
MaxUsers == 3
MaxPosts == 2

\* an instant `back` days before the day of the run, `sec` seconds into the day
At(back, sec) == (DateOf(Now) - back) * DaySeconds + sec

Raw(ts, v, l, c, s) ==
    [createTime |-> ts,
     stats |-> [playCount |-> v, diggCount |-> l, commentCount |-> c, shareCount |-> s]]

\* a record without createTime
NoTime == [stats |-> [playCount |-> 5, diggCount |-> 1, commentCount |-> 0, shareCount |-> 0]]

RawPosts ==
    { Raw(At(0, 100), 2, 1, 0, 0), Raw(At(0, 20000), 0, 0, 0, 0),
      Raw(At(0, 300), 3, 1, 1, 1),
      Raw(At(1, 86399), 1, 1, 0, 0), Raw(At(2, 0), 2, 0, 1, 0),
      Raw(At(14, 50), 1, 0, 0, 0), Raw(At(15, 50), 3, 1, 0, 0),
      Raw(At(15, 60), 0, 0, 0, 0),
      Raw(At(27, 10), 2, 2, 0, 0), Raw(At(28, 10), 1, 0, 0, 1),
      Raw(At(29, 10), 4, 1, 0, 0),
      [createTime |-> At(1, 7), stats |-> [playCount |-> 2]],
      [createTime |-> At(2, 9)],
      Raw(At(364, 21599), 2, 1, 0, 0),
      NoTime }

RECURSIVE SeqsUpTo(_, _)
SeqsUpTo(S, n) ==
    IF n = 0 THEN {<<>>}
    ELSE LET shorter == SeqsUpTo(S, n - 1)
         IN  shorter \cup {Append(s, x) : s \in shorter, x \in S}

\* one post a day for `len` days up to the day of the run; views and likes
\* grow by `step` a day
DailyRun(len, step) ==
    Rows([i \in 1..len |-> Raw(At(len - i, 40), 1 + step * i, 1 + step * i, 0, 0)])

Runs == {DailyRun(len, step) : len \in {Window, Window + 1}, step \in {0, 1}}

\* spans about the 3-month and 6-month windows, and the first instant of the
\* retention window
FarPosts == { Raw(At(90, 5), 3, 1, 0, 0), Raw(At(91, 5), 3, 1, 0, 0),
              Raw(At(180, 5), 2, 1, 0, 0), Raw(At(181, 5), 2, 1, 0, 0),
              Raw(At(364, 21600), 1, 0, 0, 0) }

NearPosts == { Raw(At(0, 100), 0, 0, 0, 0), Raw(At(1, 100), 2, 1, 0, 0) }

\* the scenario of 2025-04-01 and 2025-04-02
Scenario ==
    << Raw(At(2, 3600), 7000, 500, 60, 30), Raw(At(1, 3600), 6000, 400, 50, 25),
       Raw(At(2, 7200), 5000, 300, 40, 20) >>

ItemLists ==
    SeqsUpTo(RawPosts, MaxPosts)
    \cup {run \o s : run \in Runs, s \in SeqsUpTo(NearPosts \cup {NoTime}, 1)}
    \cup {<<f, n>> : f \in FarPosts, n \in NearPosts}
    \cup {<<Raw(At(0, 100), 0, 0, 0, 0), Raw(At(181, 5), 2, 1, 0, 0), Raw(At(91, 5), 3, 1, 0, 0)>>}
    \cup {Scenario}

EntityResponses == {[ok |-> TRUE, itemList |-> s] : s \in ItemLists} \cup {NoResponse}

User(n) == [username |-> <<"user1", "user2", "user3", "user4", "user5">>[n],
            secUid |-> n]

UserLists == {[i \in 1..k |-> User(i)] : k \in 0..MaxUsers}

\* a small cohort: heat scores 10, 20, 30, -1/2, -2, 0 and entities without one
CohortItemLists ==
    { <<>>,
      <<NoTime, Raw(At(0, 100), 2, 1, 0, 0)>>,
      <<Raw(At(3, 100), 2, 1, 0, 0)>>,
      <<Raw(At(15, 50), 0, 0, 0, 0), Raw(At(0, 100), 10, 10, 0, 0)>>,
      <<Raw(At(15, 50), 0, 0, 0, 0), Raw(At(0, 100), 20, 15, 3, 2)>>,
      <<Raw(At(15, 50), 0, 0, 0, 0), Raw(At(0, 100), 30, 30, 0, 0)>>,
      <<Raw(At(15, 50), 3, 0, 0, 0), Raw(At(0, 100), 2, 1, 0, 0)>>,
      <<Raw(At(15, 50), 2, 0, 0, 0), Raw(At(0, 100), 0, 0, 0, 0)>>,
      <<Raw(At(15, 50), 2, 0, 0, 0), Raw(At(0, 100), 2, 0, 0, 0)>> }

CohortResponses == {[ok |-> TRUE, itemList |-> s] : s \in CohortItemLists}

(***************************************************************************)
(* Specifications                                                          *)
(***************************************************************************)
\* the cohort run of main
Next ==
    \/ FetchFollowing(UserLists)
    \/ ProcessUser(CohortResponses)
    \/ UploadDaily
    \/ UploadTrend

Spec == Init /\ [][Next]_vars

\* main over one followed user, with every response of EntityResponses
NextEntity ==
    \/ FetchFollowing({<<User(1)>>})
    \/ ProcessUser(EntityResponses)
    \/ UploadDaily
    \/ UploadTrend

SpecEntity == Init /\ [][NextEntity]_vars

(***************************************************************************)
(* Properties of build_daily_stats, checked under SpecEntity               *)
(***************************************************************************)
Dense(df, lo, hi) ==
    /\ Len(df) = hi - lo + 1
    /\ df[1].date = lo
    /\ df[Len(df)].date = hi
    /\ \A i \in 1..(Len(df) - 1) : df[i + 1].date = df[i].date + 1

\* C1: for a non-empty list of post events whose dates span d_min..d_max the
\* daily table has exactly d_max - d_min + 1 records, from d_min to d_max, each
\* one day after the one before it.
C1_Density ==
    posts # <<>> => Dense(df_stats, SetMin(Dates(posts)), SetMax(Dates(posts)))

\* a table with zero-filled days between two posting days
C1_Witness ==
    /\ Cardinality(Dates(posts)) = 2
    /\ Len(df_stats) > 3
    /\ \E i \in DOMAIN df_stats : df_stats[i].videos = 0

ZeroFilled(df, dates) ==
    \A i \in DOMAIN df :
        df[i].date \notin dates =>
            /\ df[i].videos = 0 /\ df[i].views = 0 /\ df[i].likes = 0
            /\ df[i].comments = 0 /\ df[i].shares = 0
            /\ \A c \in RatioCols : df[i][c] = NA

\* C2: a day of the span on which no post event falls has videos = 0, all four
\* sums 0, and its four per-post ratios and its engagement_rate missing.
C2_ZeroFill == ZeroFilled(df_stats, Dates(posts))

C2_Witness ==
    \E i \in DOMAIN df_stats :
        /\ df_stats[i].date \notin Dates(posts)
        /\ df_stats[i].engagement_rate = NA
        /\ df_stats[i].views_per_post = NA

RECURSIVE SumOver(_, _, _)
SumOver(ps, I, f) ==
    IF I = {} THEN 0
    ELSE LET i == CHOOSE j \in I : TRUE
         IN  ps[i][f] + SumOver(ps, I \ {i}, f)

EventsOn(ps, d) == {j \in DOMAIN ps : DateOf(ps[j].createTime) = d}

AggregatedOn(r, ps, I) ==
    /\ r.videos = Cardinality(I)
    /\ \A f \in {"views", "likes", "comments", "shares"} : r[f] = SumOver(ps, I, f)

Aggregated(df, ps, dates) ==
    /\ \A i \in DOMAIN df :
          df[i].date \in dates => AggregatedOn(df[i], ps, EventsOn(ps, df[i].date))
    /\ \A f \in {"views", "likes", "comments", "shares"} :
          SumInts(Column(df, f)) = SumOver(ps, DOMAIN ps, f)
    /\ SumInts(Column(df, "videos")) = Len(ps)

\* C3: the record of a day with post events counts those events in videos and
\* sums their views, likes, comments and shares, whatever the order of the
\* events; the totals of the daily table are the totals of the events.
C3_Aggregation == posts # <<>> => Aggregated(df_stats, posts, Dates(posts))

\* the scenario: two events of 2025-04-01 around one of 2025-04-02
C3_Witness ==
    /\ Len(posts) = 3
    /\ DateOf(posts[1].createTime) = DateOf(posts[3].createTime)
    /\ DateOf(posts[2].createTime) > DateOf(posts[1].createTime)
    /\ Column(df_stats, "videos") = <<2, 1>>
    /\ Column(df_stats, "views") = <<12000, 6000>>
    /\ Column(df_stats, "likes") = <<800, 400>>
    /\ Column(df_stats, "comments") = <<100, 50>>
    /\ Column(df_stats, "shares") = <<50, 25>>
    /\ Column(df_stats, "likes_per_post") = <<Num(400), Num(400)>>
    /\ Column(df_stats, "engagement_rate") = <<Frac(19, 240), Frac(19, 240)>>

AvgCol ==
    [views |-> "views_28day_avg", likes |-> "likes_28day_avg",
     comments |-> "comments_28day_avg", shares |-> "shares_28day_avg",
     videos |-> "videos_28day_avg",
     likes_per_post |-> "likes_per_post_28day_avg",
     comments_per_post |-> "comments_per_post_28day_avg",
     shares_per_post |-> "shares_per_post_28day_avg",
     views_per_post |-> "views_per_post_28day_avg",
     engagement_rate |-> "engagement_rate_28day_avg"]

\* avg[i] is the mean of the Window values of the series ending at row i
MeanOfWindow(series, avg, i) ==
    Mul(avg[i], Num(Window)) = SumNumsIn(series, i - Window + 1, i)

WindowPresent(series, i) == \A j \in (i - Window + 1)..i : IsNum(series[j])

AsClaimed(series, avg) ==
    \A i \in DOMAIN series :
        /\ i < Window => avg[i] = NA
        /\ i >= Window => IsNum(avg[i])
        /\ i = Window => MeanOfWindow(series, avg, i)

\* C4 as claimed: for each of the ten columns the average is missing at rows
\* 1..Window-1 and present from row Window on, where it is the mean of the first
\* Window values.
C4_AsClaimed ==
    \A col \in RawCols \cup RatioCols :
        AsClaimed(Values(df_stats, col), Column(df_stats, AvgCol[col]))

AsAmended(series, avg, raw) ==
    \A i \in DOMAIN series :
        /\ i < Window => avg[i] = NA
        /\ (i >= Window /\ raw) => IsNum(avg[i])
        /\ i >= Window => (IsNum(avg[i]) <=> WindowPresent(series, i))
        /\ i >= Window => (avg[i] = NA \/ MeanOfWindow(series, avg, i))

\* C4 as amended: each average is missing at rows 1..Window-1; from row Window
\* on, the average of a raw count is present, and the average of a ratio is
\* present exactly when all Window values of its window are; a present average
\* is the mean of the Window values ending at its row.
C4_RollingWindow ==
    \A col \in RawCols \cup RatioCols :
        AsAmended(Values(df_stats, col), Column(df_stats, AvgCol[col]), col \in RawCols)

\* 29 posting days in a row: at rows 28 and 29 every average is present, and
\* the views grew from one window to the next
C4_Witness ==
    /\ Len(df_stats) = Window + 1
    /\ \A col \in RawCols \cup RatioCols :
          IsNum(df_stats[Window][AvgCol[col]]) /\ df_stats[Window - 1][AvgCol[col]] = NA
    /\ df_stats[Window].views_28day_avg # df_stats[Window + 1].views_28day_avg

(***************************************************************************)
(* Properties of calculate_slopes, checked under SpecEntity                *)
(***************************************************************************)
MomentumFamily == {"velocity", "momentum_score", "heat_score"}

RowsOf(rows, metric) == SelectSeq(rows, LAMBDA r : r.metric = metric)

LastDate(df) == df[Len(df)].date

HasRecent(df, last) == \E i \in DOMAIN df : df[i].date >= last - RecentDays

HasPrev(df, last) ==
    \E i \in DOMAIN df : df[i].date >= last - PrevDays /\ df[i].date < last - RecentDays

SkipRule(df, res) ==
    IF HasRecent(df, LastDate(df)) /\ HasPrev(df, LastDate(df))
    THEN \A m \in MomentumFamily : Len(RowsOf(res, m)) = 1
    ELSE \A m \in MomentumFamily : Len(RowsOf(res, m)) = 0

\* C5: calculate_slopes emits one velocity, one momentum_score and one
\* heat_score row when both the recent and the prev sub-sequence are non-empty,
\* and none of the three otherwise.
C5_MomentumSkip == df_stats # <<>> => SkipRule(df_stats, results)

\* a table of exactly RecentDays + 1 days: all of it is recent, prev is empty
C5_Witness ==
    /\ Len(df_stats) = RecentDays + 1
    /\ Len(results) = 9
    /\ \A m \in MomentumFamily : RowsOf(results, m) = <<>>

Increasing(y) ==
    /\ \A i \in DOMAIN y : IsNum(y[i])
    /\ \A i \in 1..(Len(y) - 1) : y[i].n * y[i + 1].d < y[i + 1].n * y[i].d

Constant(y) == \A i \in DOMAIN y : IsNum(y[i]) /\ y[i] = y[1]

SignRule(y, slope) ==
    /\ Len(y) <= 1 => slope = NA
    /\ (Len(y) >= 2 /\ Increasing(y)) => (IsNum(slope) /\ slope.n > 0)
    /\ (Len(y) >= 2 /\ Constant(y)) => slope = Num(0)

Window3(r) == r.date >= LastDate(df_stats) - SlopeDays3mo

Window6(r) == r.date >= LastDate(df_stats) - SlopeDays6mo

Window12(r) == r.date >= LastDate(df_stats) - SlopeDays12mo

SlopeSigns(df, res) ==
    \A k \in 1..3 :
        /\ res[3 * k - 2].metric = SlopeMetrics[k] /\ res[3 * k - 2].slope_window = "slope_3mo"
        /\ res[3 * k - 1].metric = SlopeMetrics[k] /\ res[3 * k - 1].slope_window = "slope_6mo"
        /\ res[3 * k].metric = SlopeMetrics[k] /\ res[3 * k].slope_window = "slope_12mo"
        /\ SignRule(Values(SelectSeq(df, Window3), SlopeMetrics[k]), res[3 * k - 2].slope)
        /\ SignRule(Values(SelectSeq(df, Window6), SlopeMetrics[k]), res[3 * k - 1].slope)
        /\ SignRule(Values(SelectSeq(df, Window12), SlopeMetrics[k]), res[3 * k].slope)

\* C8: for views, likes and engagement_rate and the windows of 90, 180 and 365
\* days back from the last date (records with date >= last date - days), the
\* slope is missing when the window holds at most one record, positive when it
\* holds at least two over which the metric strictly increases, and 0 when it
\* holds at least two over which the metric is one constant value.
C8_SlopeSign == df_stats # <<>> => SlopeSigns(df_stats, results)

\* views rising over 28 days give positive slopes, a constant engagement_rate
\* gives slope 0
C8_Witness ==
    /\ Len(df_stats) >= Window
    /\ Increasing(Values(df_stats, "views"))
    /\ results[1].slope.n > 0
    /\ Constant(Values(df_stats, "engagement_rate"))
    /\ results[7].slope = Num(0)


RecentOf(df) == SelectSeq(df, LAMBDA r : r.date >= LastDate(df_stats) - RecentDays)

PrevOf(df) ==
    SelectSeq(df, LAMBDA r : /\ r.date >= LastDate(df_stats) - PrevDays
                             /\ r.date < LastDate(df_stats) - RecentDays)

HeatRule(velocity, er, heat) ==
    /\ IsNum(heat)
    /\ Defined(er) = <<>> => heat = Num(velocity)
    /\ Defined(er) # <<>> =>
          Mul(heat, Num(Len(Defined(er)))) = Mul(Num(velocity), SumNums(Defined(er)))

ScoreRule(rsum, psum, score) ==
    /\ psum = 0 <=> score = NA
    /\ psum # 0 => (IsNum(score) /\ score.n * psum = rsum * score.d)

MomentumValues(rsum, psum, er, res) ==
    /\ res[10].metric = "velocity" /\ res[10].slope = Num(rsum - psum)
    /\ res[11].metric = "momentum_score" /\ ScoreRule(rsum, psum, res[11].slope)
    /\ res[12].metric = "heat_score" /\ HeatRule(rsum - psum, er, res[12].slope)

\* C9: when momentum is emitted, velocity = sum(recent.views) - sum(prev.views);
\* heat_score = velocity * mean of the present recent engagement rates, or
\* velocity when none is present, and is never missing; momentum_score is
\* missing exactly when sum(prev.views) = 0 and is
\* sum(recent.views) / sum(prev.views) otherwise.
C9_HeatFallback ==
    Len(results) > 9 =>
        MomentumValues(SumOver(RecentOf(df_stats), DOMAIN RecentOf(df_stats), "views"),
                       SumOver(PrevOf(df_stats), DOMAIN PrevOf(df_stats), "views"),
                       Column(RecentOf(df_stats), "engagement_rate"),
                       results)

\* no recent day has views: the mean engagement rate is missing and the heat
\* score is the (non-zero) velocity
C9_Witness ==
    /\ Len(results) = 12
    /\ \A i \in DOMAIN df_stats :
          df_stats[i].date >= LastDate(df_stats) - RecentDays => df_stats[i].views = 0
    /\ results[12].slope = results[10].slope
    /\ results[10].slope.n < 0
    /\ results[11].slope = Num(0)

(***************************************************************************)
(* fetch_posts_last_year, checked under SpecEntity                         *)
(***************************************************************************)
WellFormed(post) == "createTime" \in DOMAIN post

Kept(post) == WellFormed(post) /\ post.createTime >= Now - RetentionWeeks * 7 * DaySeconds

SameTimes(ps, kept) ==
    /\ Len(ps) = Len(kept)
    /\ \A i \in DOMAIN kept : ps[i].createTime = kept[i].createTime

\* C7: a record without a usable timestamp is skipped alone: the post events are
\* those of the other records of the response that are within the retention
\* window, in their order.
C7_Isolation == response.ok => SameTimes(posts, SelectSeq(response.itemList, Kept))

(***************************************************************************)
(* Properties of main, checked under Spec                                  *)
(***************************************************************************)
\* value / mean * 100 with mean = total / count; a zero mean gives no finite number
PlusRule(value, total, count, plus) ==
    IF total.n # 0
    THEN IsNum(plus) /\ Mul(plus, total) = Mul(Mul(value, Num(count)), Num(PlusScale))
    ELSE ~IsNum(plus)

Normalised(rows, out, heat) ==
    /\ Len(out) = Len(rows)
    /\ \A i \in DOMAIN rows :
          /\ out[i].username = rows[i].username /\ out[i].metric = rows[i].metric
          /\ out[i].slope_window = rows[i].slope_window /\ out[i].slope = rows[i].slope
          /\ heat = <<>> => "heat_score_plus" \notin DOMAIN out[i]
          /\ (heat # <<>> /\ rows[i].metric # "heat_score") => out[i].heat_score_plus = NA
          /\ (heat # <<>> /\ rows[i].metric = "heat_score") =>
                PlusRule(rows[i].slope, SumNums(Defined(heat)), Len(Defined(heat)),
                         out[i].heat_score_plus)

\* C6: in the trend table every heat_score row has heat_score_plus = its value
\* / mean of the present heat_score values of the cohort * 100, and every other
\* row has no heat_score_plus.
C6_HeatScorePlus ==
    (pc = "done" /\ slope_summaries # <<>>) =>
        Normalised(slope_summaries, slope_df, Column(RowsOf(slope_summaries, "heat_score"), "slope"))

\* heat scores 10, 20, 30 give 50, 100, 150
C6_Witness ==
    /\ pc = "done"
    /\ Column(RowsOf(slope_df, "heat_score"), "slope") = <<Num(10), Num(20), Num(30)>>
    /\ Column(RowsOf(slope_df, "heat_score"), "heat_score_plus")
          = <<Num(50), Num(100), Num(150)>>

TrendUploads(u) == SelectSeq(u, LAMBDA t : t.table = "artist_growth_summary")

NewRowsOf(before, after, n, username) ==
    /\ Len(after) = Len(before) + n
    /\ SubSeq(after, 1, Len(before)) = before
    /\ \A i \in (Len(before) + 1)..Len(after) : after[i].username = username

Ordered ==
    /\ idx' \in {idx, idx + 1}
    /\ (idx' = idx + 1 /\ posts' = <<>>) =>
          /\ all_users_df' = all_users_df
          /\ slope_summaries' = slope_summaries
          /\ pc' = "loop"
    /\ (idx' = idx + 1 /\ posts' # <<>>) =>
          /\ NewRowsOf(all_users_df, all_users_df', Len(df_stats'), users[idx].username)
          /\ NewRowsOf(slope_summaries, slope_summaries', Len(results'), users[idx].username)
    /\ (slope_df' # slope_df \/ uploads' # uploads) => idx > Len(users)
    /\ (slope_df' # slope_df \/ TrendUploads(uploads') # TrendUploads(uploads)) =>
          (slope_summaries # <<>> /\ pc = "trend")
    /\ (pc' = "done" /\ slope_summaries' = <<>>) =>
          (slope_df' = <<>> /\ TrendUploads(uploads') = <<>>)

\* C10: entities are processed one after the other; an entity without
\* qualifying posts adds no row to either table and the loop goes on; the
\* normalisation and the uploads happen only after the last entity, and the
\* trend step is skipped when there is no trend row.
C10_BatchOrdering == [][Ordered]_vars

\* three entities, the second without qualifying posts, and both tables uploaded
C10_Witness ==
    /\ pc = "done"
    /\ Len(users) = 3
    /\ {all_users_df[i].username : i \in DOMAIN all_users_df} = {"user1", "user3"}
    /\ {slope_df[i].username : i \in DOMAIN slope_df} = {"user1", "user3"}
    /\ Len(uploads) = 2

====
